---- MODULE Spec2Model ----
(***************************************************************************)
(* Model of the wedding pictures upload service.                           *)
(*                                                                         *)
(*   - the Drive variant of the server (credential loader, /auth,          *)
(*     /oauth2callback, POST /upload with the two-level folder             *)
(*     look-up-or-create),                                                 *)
(*   - the Cloudinary variant of the server (POST /upload, error log),     *)
(*   - the signing function (exports.handler).                             *)
(*                                                                         *)
(* Strings are sequences of one-character strings (UTF-16 code units), so  *)
(* that replace(/[^...]/g, '_'), trim() and split(',') are computed        *)
(* character by character.                                                 *)
(***************************************************************************)
EXTENDS Integers, Sequences, FiniteSets, TLC

VARIABLES
  env,            \* process.env / credentials file seen by the Drive server at boot
  oAuth2Client,   \* module-level `let oAuth2Client` of the Drive server
  tokenFile,      \* token.json on disk
  booted,         \* position of the Drive server's start-up code
  req,            \* the HTTP requests, each with its handler's position and locals
  disk,           \* temp files present under uploads/
  folders,        \* Google Drive: the non-trashed folders
  uploads,        \* Google Drive: the uploaded files
  log,            \* upload_errors.log, one entry per line
  now,            \* Date.now() in milliseconds
  cloudEnv,       \* CLOUDINARY_* environment of the Cloudinary server
  signReq,        \* the signing function's event and environment
  signRes,        \* the signing function's return value
  sanit           \* the upload handlers' sanitizers applied to signReq.guestName

vars == <<env, oAuth2Client, tokenFile, booted, req, disk, folders, uploads,
          log, now, cloudEnv, signReq, signRes, sanit>>

serverVars == <<env, oAuth2Client, tokenFile, booted, req, disk, folders,
                uploads, log, now, cloudEnv>>

pureVars == <<signReq, signRes, sanit>>

----------------------------------------------------------------------------
(* Bounds                                                                  *)

MaxLen == 2        \* longest guest name drawn for the pure functions
MaxReq == 2        \* HTTP requests per behaviour

----------------------------------------------------------------------------
(* Characters and strings                                                  *)

Lower == {"a","b","c","d","e","f","g","h","i","j","k","l","m",
          "n","o","p","q","r","s","t","u","v","w","x","y","z"}
Upper == {"A","B","C","D","E","F","G","H","I","J","K","L","M",
          "N","O","P","Q","R","S","T","U","V","W","X","Y","Z"}
Digit == {"0","1","2","3","4","5","6","7","8","9"}

\* the character class of /[^a-zA-Z0-9_-]/
AllowedCloud == Lower \cup Upper \cup Digit \cup {"_", "-"}

\* the character class of /[^a-zA-Z0-9]/
AllowedDrive == Lower \cup Upper \cup Digit

\* characters String.prototype.trim() strips (those drawn here)
WhiteSpace == {" "}

\* the characters guest names are drawn from
Chars == {"a", "Z", "7", "_", "-", " ", "!"}

RECURSIVE SeqsUpTo(_, _)
SeqsUpTo(S, n) ==
  IF n = 0 THEN {<<>>}
  ELSE LET shorter == SeqsUpTo(S, n - 1)
       IN  shorter \cup {Append(s, c) : s \in shorter, c \in S}

Names == SeqsUpTo(Chars, MaxLen)

\* s.replace(/[^<allowed>]/g, '_')
ReplaceOutside(s, allowed) ==
  [i \in 1..Len(s) |-> IF s[i] \in allowed THEN s[i] ELSE "_"]

RECURSIVE TrimStart(_)
TrimStart(s) ==
  IF s # <<>> /\ Head(s) \in WhiteSpace THEN TrimStart(Tail(s)) ELSE s

RECURSIVE TrimEnd(_)
TrimEnd(s) ==
  IF s # <<>> /\ s[Len(s)] \in WhiteSpace
  THEN TrimEnd(SubSeq(s, 1, Len(s) - 1)) ELSE s

\* String.prototype.trim()
Trim(s) == TrimEnd(TrimStart(s))

Str(w) == <<w>>     \* an opaque configured string, kept as one unit

Slash == <<"/">>

----------------------------------------------------------------------------
(* The three sanitizers                                                    *)

\* Drive upload handler: guestName.replace(/[^a-zA-Z0-9]/g, "_")
SanitizeDrive(guestName) == ReplaceOutside(guestName, AllowedDrive)

\* Cloudinary upload handler: guestName.replace(/[^a-zA-Z0-9_-]/g, '_')
SanitizeCloud(guestName) == ReplaceOutside(guestName, AllowedCloud)

\* signing function: const sanitize = (s) => (s || '').replace(/[^a-zA-Z0-9_-]/g, '_')
SanitizeSign(s) == ReplaceOutside(s, AllowedCloud)

----------------------------------------------------------------------------
(* The signing function (exports.handler)                                  *)

DefaultFolder == Str("wedding_photos")
Anonymous == Str("anonymous")

\* crypto.createHash('sha1').update(x).digest('hex'): an injective digest
Sha1(x) == [sha1 |-> x]

\* Date.now() values the signing function may see
SignClocks == {0, 999, 1000, 2500}

SignInputs ==
  [cloudName : {"", "demo"}, apiKey : {"", "key1"}, apiSecret : {<<>>, Str("s3cret")},
   folderEnv : {<<>>, Str("boda")},
   hasGuest : BOOLEAN, guestName : Names, nowMs : SignClocks]

NoSignRes ==
  [statusCode |-> 0, error |-> "", api_key |-> "", timestamp |-> 0,
   signature |-> Sha1(<<>>), cloud_name |-> "", folder |-> <<>>]

\* `folder=${folder}&timestamp=${timestamp}`
ToSign(folder, timestamp) ==
  <<"folder=">> \o folder \o <<"&timestamp=">> \o <<ToString(timestamp)>>

SignSegmentNoFallback(e) ==
  LET guestName == IF e.hasGuest /\ e.guestName # <<>> THEN Trim(e.guestName) ELSE <<>>
  IN  SanitizeSign(guestName)

\* lines 159-162: qs.guestName ? String(qs.guestName).trim() : '', then
\* sanitize(guestName) || 'anonymous'
SignSegment(e) ==
  LET guestName == IF e.hasGuest /\ e.guestName # <<>> THEN Trim(e.guestName) ELSE <<>>
  IN  IF SanitizeSign(guestName) # <<>> THEN SanitizeSign(guestName) ELSE Anonymous

\* lines 150 and 163: `${BASE_FOLDER}/${sanitized}`
SignFolder(e) ==
  LET BASE_FOLDER == IF e.folderEnv # <<>> THEN e.folderEnv ELSE DefaultFolder
  IN  BASE_FOLDER \o Slash \o SignSegment(e)

SignHandler(e) ==
  IF e.cloudName = "" \/ e.apiKey = "" \/ e.apiSecret = <<>>
  THEN [NoSignRes EXCEPT !.statusCode = 500,
                         !.error = "Cloudinary no configurado en el servidor (faltan env vars)"]
  ELSE LET folder == SignFolder(e)
           timestamp == e.nowMs \div 1000
           signature == Sha1(ToSign(folder, timestamp) \o e.apiSecret)
       IN  [NoSignRes EXCEPT !.statusCode = 200, !.api_key = e.apiKey,
                             !.timestamp = timestamp, !.signature = signature,
                             !.cloud_name = e.cloudName, !.folder = folder]

NoSanit == [applied |-> {}, drive |-> <<>>, cloud |-> <<>>]

Sign ==
  /\ signRes = NoSignRes
  /\ signRes' = SignHandler(signReq)
  /\ UNCHANGED <<signReq, sanit>>
  /\ UNCHANGED serverVars

\* the upload handlers' sanitizers applied to the drawn name
ApplySanitizeDrive ==
  /\ "drive" \notin sanit.applied
  /\ sanit' = [sanit EXCEPT !.applied = @ \cup {"drive"},
                            !.drive = SanitizeDrive(signReq.guestName)]
  /\ UNCHANGED <<signReq, signRes>>
  /\ UNCHANGED serverVars

ApplySanitizeCloud ==
  /\ "cloud" \notin sanit.applied
  /\ sanit' = [sanit EXCEPT !.applied = @ \cup {"cloud"},
                            !.cloud = SanitizeCloud(signReq.guestName)]
  /\ UNCHANGED <<signReq, signRes>>
  /\ UNCHANGED serverVars

----------------------------------------------------------------------------
(* Credential loader of the Drive server (start-up code)                   *)

\* a redirect URI list as the credentials JSON holds it: a list of strings
UriA == <<"u">>
UriB == <<"v">>

NoConf ==
  [present |-> FALSE, client_id |-> "", client_secret |-> "",
   hasUris |-> FALSE, redirect_uris |-> <<>>]

\* the shapes of a credentials object: complete, or lacking one required field
ConfShapes(id) ==
  { [present |-> TRUE, client_id |-> id, client_secret |-> "sec",
     hasUris |-> TRUE, redirect_uris |-> <<UriA, UriB>>],
    [present |-> TRUE, client_id |-> "", client_secret |-> "sec",
     hasUris |-> TRUE, redirect_uris |-> <<UriA>>],
    [present |-> TRUE, client_id |-> id, client_secret |-> "",
     hasUris |-> TRUE, redirect_uris |-> <<UriA>>],
    [present |-> TRUE, client_id |-> id, client_secret |-> "sec",
     hasUris |-> FALSE, redirect_uris |-> <<>>],
    [present |-> TRUE, client_id |-> id, client_secret |-> "sec",
     hasUris |-> TRUE, redirect_uris |-> <<>>] }

CompleteConf(id) ==
  [present |-> TRUE, client_id |-> id, client_secret |-> "sec",
   hasUris |-> TRUE, redirect_uris |-> <<UriA, UriB>>]

EmptyTop == [NoConf EXCEPT !.present = TRUE]

\* what JSON.parse returns: null, or an object with optional installed / web
\* members and optional top-level client fields
NullDoc == [isNull |-> TRUE, installed |-> NoConf, web |-> NoConf, top |-> EmptyTop]

Docs(id) ==
  {NullDoc}
  \cup {[isNull |-> FALSE, installed |-> c, web |-> NoConf, top |-> EmptyTop] : c \in ConfShapes(id)}
  \cup {[isNull |-> FALSE, installed |-> NoConf, web |-> c, top |-> EmptyTop] : c \in ConfShapes(id)}
  \cup {[isNull |-> FALSE, installed |-> NoConf, web |-> NoConf, top |-> c] : c \in ConfShapes(id)}
  \cup {[isNull |-> FALSE,
         installed |-> [CompleteConf(id) EXCEPT !.client_secret = ""],
         web |-> CompleteConf(id), top |-> EmptyTop]}

\* a text handed to JSON.parse: it parses to a document or it throws
Texts(id) ==
  {[parses |-> FALSE, doc |-> NullDoc]} \cup {[parses |-> TRUE, doc |-> d] : d \in Docs(id)}

\* GOOGLE_CREDENTIALS_JSON: unset (or empty), or a text
JsonEnvs ==
  {[set |-> FALSE, parses |-> FALSE, doc |-> NullDoc]}
  \cup {[set |-> TRUE, parses |-> t.parses, doc |-> t.doc] : t \in Texts("id-env")}

\* the credentials file: absent, or a text
FileStates ==
  {[exists |-> FALSE, parses |-> FALSE, doc |-> NullDoc]}
  \cup {[exists |-> TRUE, parses |-> t.parses, doc |-> t.doc] : t \in Texts("id-file")}

\* GOOGLE_REDIRECT_URIS values
RedirectStrings ==
  { <<>>, <<"u">>, <<" ", "u", " ", ",", "v">>, <<",">>, <<" ", ",", " ">> }

AllEnvs ==
  [json : JsonEnvs, file : FileStates, clientId : {"", "id-vars"},
   clientSecret : {"", "sec"}, redirectUris : RedirectStrings]

\* s.split(',')
RECURSIVE SplitComma(_)
SplitComma(s) ==
  IF \A i \in 1..Len(s) : s[i] # ","
  THEN <<s>>
  ELSE LET i == CHOOSE k \in 1..Len(s) : s[k] = "," /\ \A j \in 1..(k - 1) : s[j] # ","
       IN  <<SubSeq(s, 1, i - 1)>> \o SplitComma(SubSeq(s, i + 1, Len(s)))

\* (process.env.GOOGLE_REDIRECT_URIS || '').split(',').map(s => s.trim()).filter(Boolean)
ParseRedirects(s) ==
  LET parts == SplitComma(s)
      trimmed == [i \in 1..Len(parts) |-> Trim(parts[i])]
  IN  SelectSeq(trimmed, LAMBDA x : x # <<>>)

NoClient ==
  [configured |-> FALSE, client_id |-> "", client_secret |-> "",
   redirect_uri |-> <<>>, credentials |-> "none"]

Thrown == [thrown |-> TRUE, doc |-> NullDoc]
Parsed(d) == [thrown |-> FALSE, doc |-> d]

\* lines 40-57: the first source that is present decides
SelectCredentialsFallThrough(e) ==
  IF e.json.set /\ e.json.parses THEN Parsed(e.json.doc)
  ELSE IF e.file.exists /\ e.file.parses THEN Parsed(e.file.doc)
  ELSE IF e.clientId # "" /\ e.clientSecret # ""
  THEN Parsed([isNull |-> FALSE, installed |-> NoConf, top |-> EmptyTop,
               web |-> [present |-> TRUE, client_id |-> e.clientId,
                        client_secret |-> e.clientSecret, hasUris |-> TRUE,
                        redirect_uris |-> ParseRedirects(e.redirectUris)]])
  ELSE Thrown

SelectCredentials(e) ==
  IF e.json.set
  THEN IF e.json.parses THEN Parsed(e.json.doc) ELSE Thrown
  ELSE IF e.file.exists
  THEN IF e.file.parses THEN Parsed(e.file.doc) ELSE Thrown
  ELSE IF e.clientId # "" /\ e.clientSecret # ""
  THEN Parsed([isNull |-> FALSE, installed |-> NoConf, top |-> EmptyTop,
               web |-> [present |-> TRUE, client_id |-> e.clientId,
                        client_secret |-> e.clientSecret, hasUris |-> TRUE,
                        redirect_uris |-> ParseRedirects(e.redirectUris)]])
  ELSE Thrown

\* line 59: credentials.installed || credentials.web || credentials
ConfOf(doc) ==
  IF doc.installed.present THEN doc.installed
  ELSE IF doc.web.present THEN doc.web
  ELSE doc.top

\* lines 35-67: the value oAuth2Client has after the try/catch
LoadCredentials(e) ==
  LET sel == SelectCredentials(e)
  IN  IF sel.thrown \/ sel.doc.isNull
      THEN NoClient
      ELSE LET conf == ConfOf(sel.doc)
           IN  IF conf.client_id = "" \/ conf.client_secret = ""
                  \/ ~conf.hasUris \/ Len(conf.redirect_uris) = 0
               THEN NoClient
               ELSE [configured |-> TRUE, client_id |-> conf.client_id,
                     client_secret |-> conf.client_secret,
                     redirect_uri |-> conf.redirect_uris[1],
                     credentials |-> "none"]

\* start-up, lines 34-67
LoadCredentialsStep ==
  /\ booted = "loading"
  /\ oAuth2Client' = LoadCredentials(env)
  /\ booted' = "token"
  /\ UNCHANGED <<env, tokenFile, req, disk, folders, uploads, log,
                 now, cloudEnv>>
  /\ UNCHANGED pureVars

\* start-up, lines 69-82, then app.listen
LoadTokenStep ==
  /\ booted = "token"
  /\ oAuth2Client' =
       IF oAuth2Client.configured /\ tokenFile \notin {"absent", "corrupt"}
       THEN [oAuth2Client EXCEPT !.credentials = tokenFile]
       ELSE oAuth2Client
  /\ booted' = "running"
  /\ UNCHANGED <<env, tokenFile, req, disk, folders, uploads, log,
                 now, cloudEnv>>
  /\ UNCHANGED pureVars

----------------------------------------------------------------------------
(* HTTP requests                                                           *)

Reqs == 1..MaxReq

\* guest names sent to the upload endpoints: missing, and names with
\* characters inside and outside the allowed class
GuestNames == { <<>>, <<"a", " ">>, <<"a", "_">> }

\* messages of the errors the remote stores reject with
DriveErrMessages == { <<"ETIMEDOUT">> }
CloudErrMessages == { <<"Invalid", "api_key", "key1">> }

\* Math.random().toString(36).slice(2,8) draws
RandomTokens == {"k3x9q2", "p0m1zz"}

\* Date.now(): the clock never runs backwards; it is observed where it is read
ClockValues == {0, 1}
Clock == {t \in ClockValues : t >= now}

\* message of a failing fs.unlinkSync
UnlinkMessage == <<"EPERM">>

OriginalName == "foto.jpg"

NoId == [t |-> -1, r |-> -1]
NoOpts == [prompt |-> "", login_hint |-> "", authuser |-> ""]

\* a response: status 0 while none was sent
NoRes ==
  [status |-> 0, success |-> "absent", error |-> "", detail |-> <<>>,
   id |-> NoId, location |-> NoOpts]

NoReq ==
  [kind |-> "none", pc |-> "new", guestName |-> <<>>, path |-> 0, tempPath |-> 0,
   folderId |-> 0, guestFolderId |-> 0, sanitized |-> <<>>, folder |-> <<>>,
   ts |-> 0, uploaded |-> FALSE, calls |-> {}, res |-> NoRes, err |-> <<>>,
   unlinkThrew |-> FALSE, logged |-> 0]

\* the handler returned: its locals and the request body are released; the
\* response, the stored file's name and the calls made remain as history
Finished(rec, res) ==
  [rec EXCEPT !.pc = "done", !.res = res, !.guestName = <<>>, !.tempPath = 0,
              !.folderId = 0, !.guestFolderId = 0, !.sanitized = <<>>,
              !.folder = <<>>, !.ts = 0]

\* requests arrive in the order of their numbers
MayArrive(r) ==
  /\ req[r].kind = "none"
  /\ IF r = 1 THEN TRUE ELSE req[r - 1].kind # "none"

\* upload.single('file'): the multipart layer stores the file, if the request
\* carries one, under a name of its own (multer({ dest: 'uploads/' }) draws a
\* fresh random name per file; here it is the request's number). 0: no file
Stored(r, f) == IF f THEN r ELSE 0
DiskAfterMulter(r, f) == IF f THEN disk \cup {r} ELSE disk

\* Drive gives every created object an id of its own: here the k-th object
\* request r creates
DriveId(r, k) == (r - 1) * 3 + k

Respond(status, success, error, detail) ==
  [NoRes EXCEPT !.status = status, !.success = success, !.error = error,
                !.detail = detail]

----------------------------------------------------------------------------
(* Drive server: GET /auth and GET /oauth2callback                         *)

AuthQueries ==
  { [force |-> "", prompt |-> "", login_hint |-> "", authuser |-> ""],
    [force |-> "1", prompt |-> "", login_hint |-> "ana", authuser |-> ""],
    [force |-> "1", prompt |-> "consent", login_hint |-> "", authuser |-> "0"] }

\* lines 86-99: build the authorization URL and redirect to it
AuthRedirect(r, q) ==
  LET promptValue == IF q.prompt # "" THEN q.prompt
                     ELSE IF q.force = "1" THEN "consent select_account"
                     ELSE "select_account"
  IN  Finished([req[r] EXCEPT !.kind = "auth", !.calls = {"generateAuthUrl"}],
               [NoRes EXCEPT !.status = 302,
                  !.location = [prompt |-> promptValue,
                                login_hint |-> q.login_hint,
                                authuser |-> q.authuser]])

AuthHandlerUnguarded(r, q) == AuthRedirect(r, q)

\* lines 84-100
AuthHandler(r, q) ==
  IF ~oAuth2Client.configured
  THEN Finished([req[r] EXCEPT !.kind = "auth"],
                Respond(500, "absent", "credentials.json no configurado en el servidor", <<>>))
  ELSE AuthRedirect(r, q)

Auth(r) ==
  /\ booted = "running"
  /\ MayArrive(r)
  /\ \E q \in AuthQueries : req' = [req EXCEPT ![r] = AuthHandler(r, q)]
  /\ UNCHANGED <<env, oAuth2Client, tokenFile, booted, disk, folders,
                 uploads, log, now, cloudEnv>>
  /\ UNCHANGED pureVars

\* lines 103-108, up to the await
CallbackEntry(r, code) ==
  IF ~oAuth2Client.configured
  THEN Finished([req[r] EXCEPT !.kind = "callback"],
                Respond(500, "absent", "OAuth no configurado. No hay credentials.json", <<>>))
  ELSE IF code = ""
  THEN Finished([req[r] EXCEPT !.kind = "callback"],
                Respond(400, "absent", "Codigo de autorizacion faltante", <<>>))
  ELSE [req[r] EXCEPT !.kind = "callback", !.pc = "getToken", !.calls = {"getToken"}]

Callback(r) ==
  /\ booted = "running"
  /\ MayArrive(r)
  /\ \E code \in {"", "c1"} : req' = [req EXCEPT ![r] = CallbackEntry(r, code)]
  /\ UNCHANGED <<env, oAuth2Client, tokenFile, booted, disk, folders,
                 uploads, log, now, cloudEnv>>
  /\ UNCHANGED pureVars

\* lines 108-111: getToken resolved; setCredentials, write token.json, reply.
\* A throwing writeFileSync is caught at line 112
CallbackTokenOk(r) ==
  /\ req[r].pc = "getToken"
  /\ oAuth2Client' = [oAuth2Client EXCEPT !.credentials = "tok1"]
  /\ \E writeThrows \in BOOLEAN :
       IF writeThrows
       THEN /\ tokenFile' = tokenFile
            /\ req' = [req EXCEPT ![r] =
                         Finished(@, Respond(500, "absent", "Error al autenticar", <<>>))]
       ELSE /\ tokenFile' = "tok1"
            /\ req' = [req EXCEPT ![r] =
                         Finished(@, Respond(200, "absent", "Autenticacion completada", <<>>))]
  /\ UNCHANGED <<env, booted, disk, folders, uploads, log, now, cloudEnv>>
  /\ UNCHANGED pureVars

\* lines 112-115: getToken rejected
CallbackTokenFails(r) ==
  /\ req[r].pc = "getToken"
  /\ req' = [req EXCEPT ![r] =
               Finished(@, Respond(500, "absent", "Error al autenticar", <<>>))]
  /\ UNCHANGED <<env, oAuth2Client, tokenFile, booted, disk, folders,
                 uploads, log, now, cloudEnv>>
  /\ UNCHANGED pureVars

----------------------------------------------------------------------------
(* Drive server: POST /upload                                              *)

MainFolder == Str("Fotos_Boda")

DriveAwaits == {"listMain", "createMain", "listGuest", "createGuest", "uploadFile"}

DriveUploadEntryNoFileCheck(r, g, f) ==
  LET base == [req[r] EXCEPT !.kind = "drive", !.guestName = g, !.path = Stored(r, f)]
  IN  IF ~oAuth2Client.configured
      THEN Finished(base, Respond(500, "absent", "OAuth no configurado en el servidor", <<>>))
      ELSE IF g = <<>>
      THEN Finished(base, Respond(400, "absent", "guestName faltante", <<>>))
      ELSE [base EXCEPT !.tempPath = Stored(r, f), !.pc = "listMain",
              !.calls = {"files.list"}]

\* lines 119-136, up to the first await; the multipart layer has already run
DriveUploadEntry(r, g, f) ==
  LET base == [req[r] EXCEPT !.kind = "drive", !.guestName = g, !.path = Stored(r, f)]
  IN  IF ~oAuth2Client.configured
      THEN Finished(base, Respond(500, "absent", "OAuth no configurado en el servidor", <<>>))
      ELSE IF g = <<>>
      THEN Finished(base, Respond(400, "absent", "guestName faltante", <<>>))
      ELSE IF ~f
      THEN Finished(base, Respond(400, "absent", "Archivo faltante", <<>>))
      ELSE [base EXCEPT !.tempPath = Stored(r, f), !.pc = "listMain",
              !.calls = {"files.list"}]

DriveUpload(r) ==
  /\ booted = "running"
  /\ MayArrive(r)
  /\ \E g \in GuestNames, f \in BOOLEAN :
       /\ req' = [req EXCEPT ![r] = DriveUploadEntry(r, g, f)]
       /\ disk' = DiskAfterMulter(r, f)
  /\ UNCHANGED <<env, oAuth2Client, tokenFile, booted, folders, uploads,
                 log, now, cloudEnv>>
  /\ UNCHANGED pureVars

\* lines 133-151: the list of event folders arrives. files[0] is whichever
\* match Drive lists first; with none, the create call is issued
DriveListMainOk(r) ==
  /\ req[r].pc = "listMain"
  /\ LET files == {f \in folders : f.name = MainFolder}
     IN  IF files # {}
         THEN \E f \in files :
                req' = [req EXCEPT ![r].folderId = f.id,
                          ![r].sanitized = SanitizeDrive(req[r].guestName),
                          ![r].pc = "listGuest"]
         ELSE req' = [req EXCEPT ![r].pc = "createMain",
                        ![r].calls = @ \cup {"files.create"}]
  /\ UNCHANGED <<env, oAuth2Client, tokenFile, booted, disk, folders,
                 uploads, log, now, cloudEnv>>
  /\ UNCHANGED pureVars

\* lines 141-151: the event folder was created
DriveCreateMainOk(r) ==
  /\ req[r].pc = "createMain"
  /\ folders' = folders \cup {[id |-> DriveId(r, 1), name |-> MainFolder, parent |-> 0]}
  /\ req' = [req EXCEPT ![r].folderId = DriveId(r, 1),
               ![r].sanitized = SanitizeDrive(req[r].guestName),
               ![r].pc = "listGuest"]
  /\ UNCHANGED <<env, oAuth2Client, tokenFile, booted, disk, uploads,
                 log, now, cloudEnv>>
  /\ UNCHANGED pureVars

\* lines 152-178: the list of guest subfolders arrives; with a match the file
\* name `${Date.now()}_${originalname}` is built and the upload issued
DriveListGuestOk(r) ==
  /\ req[r].pc = "listGuest"
  /\ LET files == {f \in folders :
                     f.name = req[r].sanitized /\ f.parent = req[r].folderId}
     IN  IF files # {}
         THEN \E f \in files, t \in Clock :
                /\ now' = t
                /\ req' = [req EXCEPT ![r].guestFolderId = f.id, ![r].ts = t,
                             ![r].pc = "uploadFile"]
         ELSE /\ now' = now
              /\ req' = [req EXCEPT ![r].pc = "createGuest"]
  /\ UNCHANGED <<env, oAuth2Client, tokenFile, booted, disk, folders,
                 uploads, log, cloudEnv>>
  /\ UNCHANGED pureVars

\* lines 160-178: the guest subfolder was created
DriveCreateGuestOk(r) ==
  /\ req[r].pc = "createGuest"
  /\ folders' = folders \cup
       {[id |-> DriveId(r, 2), name |-> req[r].sanitized, parent |-> req[r].folderId]}
  /\ \E t \in Clock :
       /\ now' = t
       /\ req' = [req EXCEPT ![r].guestFolderId = DriveId(r, 2), ![r].ts = t,
                    ![r].pc = "uploadFile"]
  /\ UNCHANGED <<env, oAuth2Client, tokenFile, booted, disk, uploads,
                 log, cloudEnv>>
  /\ UNCHANGED pureVars

\* lines 193-200: catch (500 with err.message), then finally, which swallows
\* a failing unlink
DriveCaught(r, wasUploaded, msg, unlinkThrows) ==
  /\ req' = [req EXCEPT ![r] =
               Finished([@ EXCEPT !.err = msg, !.uploaded = wasUploaded,
                           !.unlinkThrew = @ \/ (req[r].tempPath \in disk /\ unlinkThrows)],
                        Respond(500, "false", "", msg))]
  /\ disk' = IF req[r].tempPath \in disk /\ ~unlinkThrows
             THEN disk \ {req[r].tempPath} ELSE disk

\* lines 186-200: delete the temp file, reply; a throwing unlinkSync at line
\* 187 lands in the catch of line 193
DriveAfterUpload(r, unlinkThrows) ==
  IF req[r].tempPath \in disk /\ unlinkThrows
  THEN \E again \in BOOLEAN :
         DriveCaught(r, TRUE, UnlinkMessage, again)
  ELSE /\ disk' = disk \ {req[r].tempPath}
       /\ req' = [req EXCEPT ![r] =
                    Finished([@ EXCEPT !.uploaded = TRUE],
                             Respond(200, "true", "", <<>>))]

\* lines 180-200: the file was uploaded
DriveUploadOk(r) ==
  /\ req[r].pc = "uploadFile"
  /\ uploads' = uploads \cup
       {[id |-> DriveId(r, 3), parent |-> req[r].guestFolderId,
         name |-> [ts |-> req[r].ts, original |-> OriginalName]]}
  /\ \E unlinkThrows \in BOOLEAN : DriveAfterUpload(r, unlinkThrows)
  /\ UNCHANGED <<env, oAuth2Client, tokenFile, booted, folders, log,
                 now, cloudEnv>>
  /\ UNCHANGED pureVars

\* the awaited Drive call rejects: lines 193-200
DriveRemoteFails(r) ==
  /\ req[r].pc \in DriveAwaits
  /\ \E msg \in DriveErrMessages, unlinkThrows \in BOOLEAN :
       DriveCaught(r, FALSE, msg, unlinkThrows)
  /\ UNCHANGED <<env, oAuth2Client, tokenFile, booted, folders, uploads, log, now, cloudEnv>>
  /\ UNCHANGED pureVars

----------------------------------------------------------------------------
(* Cloudinary server: POST /upload                                         *)

CloudEnvs == { [apiKey |-> "key1", folder |-> <<>>],
               [apiKey |-> "", folder |-> Str("boda")] }

GenericError == "Error al subir el archivo. Contacta al administrador con el id: "

\* lines 56-73, up to the await
CloudUploadEntry(r, g, f) ==
  LET base == [req[r] EXCEPT !.kind = "cloud", !.guestName = g, !.path = Stored(r, f)]
      mainFolder == IF cloudEnv.folder # <<>> THEN cloudEnv.folder ELSE DefaultFolder
      sanitized == SanitizeCloud(g)
  IN  IF g = <<>>
      THEN Finished(base, Respond(400, "absent", "guestName faltante", <<>>))
      ELSE IF ~f
      THEN Finished(base, Respond(400, "absent", "Archivo faltante", <<>>))
      ELSE [base EXCEPT !.tempPath = Stored(r, f), !.sanitized = sanitized,
              !.folder = mainFolder \o Slash \o sanitized,
              !.pc = "cloudUpload", !.calls = {"uploader.upload"}]

CloudUpload(r) ==
  /\ booted = "running"
  /\ MayArrive(r)
  /\ \E g \in GuestNames, f \in BOOLEAN :
       /\ req' = [req EXCEPT ![r] = CloudUploadEntry(r, g, f)]
       /\ disk' = DiskAfterMulter(r, f)
  /\ UNCHANGED <<env, oAuth2Client, tokenFile, booted, folders, uploads,
                 log, now, cloudEnv>>
  /\ UNCHANGED pureVars

\* lines 75-81: uploaded; best-effort delete of the temp file, reply
CloudUploadOk(r) ==
  /\ req[r].pc = "cloudUpload"
  /\ \E unlinkThrows \in BOOLEAN :
       /\ disk' = IF req[r].tempPath \in disk /\ ~unlinkThrows
                  THEN disk \ {req[r].tempPath} ELSE disk
       /\ req' = [req EXCEPT ![r] =
                    Finished([@ EXCEPT !.uploaded = TRUE,
                                !.unlinkThrew = req[r].tempPath \in disk /\ unlinkThrows],
                             Respond(200, "true", "", <<>>))]
  /\ UNCHANGED <<env, oAuth2Client, tokenFile, booted, folders, uploads, log, now, cloudEnv>>
  /\ UNCHANGED pureVars

\* lines 87-96: redact(s)
Redact(s) ==
  IF s = <<>> THEN s
  ELSE IF cloudEnv.apiKey # ""
  THEN [i \in 1..Len(s) |-> IF s[i] = cloudEnv.apiKey THEN "[REDACTED_API_KEY]" ELSE s[i]]
  ELSE s

\* line 84: `${Date.now().toString(36)}-${Math.random().toString(36).slice(2,8)}`
ErrorId(t, rnd) == [t |-> t, r |-> rnd]

\* lines 100-107
LogEntry(r, errorId, ts, msg) ==
  [id |-> errorId, ts |-> ts, guestName |-> req[r].guestName,
   originalName |-> OriginalName, message |-> Redact(msg),
   stack |-> Redact(<<"Error:">> \o msg \o <<"at", "upload">>)]

CloudErrorResponseRaw(errorId, msg) ==
  [NoRes EXCEPT !.status = 500, !.success = "false", !.error = GenericError,
                !.detail = msg, !.id = errorId]

\* line 120
CloudErrorResponse(errorId, msg) ==
  [NoRes EXCEPT !.status = 500, !.success = "false", !.error = GenericError,
                !.id = errorId]

\* lines 82-121: the upload rejected; log entry, delete the temp file, reply
CloudUploadFails(r) ==
  /\ req[r].pc = "cloudUpload"
  /\ \E msg \in CloudErrMessages, rnd \in RandomTokens, appendThrows \in BOOLEAN,
        unlinkThrows \in BOOLEAN, t \in Clock :
       LET errorId == ErrorId(t, rnd)
       IN  /\ \E ts \in {u \in ClockValues : u >= t} :
                /\ now' = ts
                /\ log' = IF appendThrows THEN log
                          ELSE Append(log, LogEntry(r, errorId, ts, msg))
           /\ disk' = IF req[r].tempPath \in disk /\ ~unlinkThrows
                      THEN disk \ {req[r].tempPath} ELSE disk
           /\ req' = [req EXCEPT ![r] =
                        Finished([@ EXCEPT !.err = msg,
                                    !.logged = IF appendThrows THEN 0 ELSE Len(log) + 1,
                                    !.unlinkThrew = req[r].tempPath \in disk /\ unlinkThrows],
                                 CloudErrorResponse(errorId, msg))]
  /\ UNCHANGED <<env, oAuth2Client, tokenFile, booted, folders, uploads, cloudEnv>>
  /\ UNCHANGED pureVars

----------------------------------------------------------------------------
(* Specifications                                                          *)

NoJson == [set |-> FALSE, parses |-> FALSE, doc |-> NullDoc]
NoFile == [exists |-> FALSE, parses |-> FALSE, doc |-> NullDoc]

\* nothing configured
BareEnv ==
  [json |-> NoJson, file |-> NoFile, clientId |-> "", clientSecret |-> "",
   redirectUris |-> <<>>]

\* environments the Drive server boots with: nothing configured, and the
\* discrete GOOGLE_CLIENT_* variables
BootEnvs ==
  { BareEnv,
    [BareEnv EXCEPT !.clientId = "id-vars", !.clientSecret = "sec",
                    !.redirectUris = <<"u">>] }

SomeCloudEnv == [apiKey |-> "key1", folder |-> <<>>]
SomeSignInput == CHOOSE e \in SignInputs : TRUE

InitServerState ==
  /\ oAuth2Client = NoClient
  /\ req = [r \in Reqs |-> NoReq]
  /\ disk = {}
  /\ folders = {}
  /\ uploads = {}
  /\ log = <<>>
  /\ now = 0

InitPureState ==
  /\ signRes = NoSignRes
  /\ sanit = NoSanit

NextBoot == LoadCredentialsStep \/ LoadTokenStep

NextAuthFlow ==
  \/ \E r \in Reqs : Auth(r)
  \/ \E r \in Reqs : Callback(r)
  \/ \E r \in Reqs : CallbackTokenOk(r)
  \/ \E r \in Reqs : CallbackTokenFails(r)

NextDriveUpload ==
  \/ \E r \in Reqs : DriveUpload(r)
  \/ \E r \in Reqs : DriveListMainOk(r)
  \/ \E r \in Reqs : DriveCreateMainOk(r)
  \/ \E r \in Reqs : DriveListGuestOk(r)
  \/ \E r \in Reqs : DriveCreateGuestOk(r)
  \/ \E r \in Reqs : DriveUploadOk(r)
  \/ \E r \in Reqs : DriveRemoteFails(r)

NextDriveServer == NextAuthFlow \/ NextDriveUpload

NextCloudServer ==
  \/ \E r \in Reqs : CloudUpload(r)
  \/ \E r \in Reqs : CloudUploadOk(r)
  \/ \E r \in Reqs : CloudUploadFails(r)

\* the two upload endpoints, each request sent to one of them
Init ==
  /\ env \in BootEnvs
  /\ tokenFile = "absent"
  /\ cloudEnv = SomeCloudEnv
  /\ booted = "loading"
  /\ InitServerState
  /\ signReq = SomeSignInput
  /\ InitPureState

Next == NextBoot \/ NextDriveUpload \/ NextCloudServer

Spec == Init /\ [][Next]_vars

\* the Drive server alone
InitDrive ==
  /\ env \in BootEnvs
  /\ tokenFile = "absent"
  /\ cloudEnv = SomeCloudEnv
  /\ booted = "loading"
  /\ InitServerState
  /\ signReq = SomeSignInput
  /\ InitPureState

NextDrive == NextBoot \/ NextDriveServer

SpecDrive == InitDrive /\ [][NextDrive]_vars

\* the Cloudinary server alone
InitCloud ==
  /\ env = BareEnv
  /\ tokenFile = "absent"
  /\ cloudEnv \in CloudEnvs
  /\ booted = "running"
  /\ InitServerState
  /\ signReq = SomeSignInput
  /\ InitPureState

SpecCloud == InitCloud /\ [][NextCloudServer]_vars

\* the credential loader over every environment
InitLoader ==
  /\ env \in AllEnvs
  /\ tokenFile \in {"absent", "corrupt", "tok0"}
  /\ cloudEnv = SomeCloudEnv
  /\ booted = "loading"
  /\ InitServerState
  /\ signReq = SomeSignInput
  /\ InitPureState

SpecLoader == InitLoader /\ [][NextBoot]_vars

\* the signing function and the sanitizers over every drawn guest name
InitSign ==
  /\ env = BareEnv
  /\ tokenFile = "absent"
  /\ cloudEnv = SomeCloudEnv
  /\ booted = "running"
  /\ InitServerState
  /\ signReq \in SignInputs
  /\ InitPureState

NextSign == Sign \/ ApplySanitizeDrive \/ ApplySanitizeCloud

SpecSign == InitSign /\ [][NextSign]_vars

----------------------------------------------------------------------------
(* Claims                                                                  *)

UploadKinds == {"drive", "cloud"}
Responded(r) == req[r].res.status # 0
InFlight(r) == req[r].kind # "none" /\ req[r].pc # "done"

\* C1 (as claimed): once an upload handler has responded, the temp file the
\* multipart layer stored for the request no longer exists, on every path of
\* both handlers, provided no delete call failed.
C1_TempFileGoneAfterResponse ==
  \A r \in Reqs :
    (req[r].kind \in UploadKinds /\ req[r].path # 0 /\ Responded(r)
       /\ ~req[r].unlinkThrew)
    => req[r].path \notin disk

\* C2 (as claimed): in the Drive handler a request whose file upload
\* succeeded is answered 200 success:true whether or not deleting the temp
\* file throws.
C2_DeleteFailureNeverPropagates ==
  \A r \in Reqs :
    (req[r].kind = "drive" /\ req[r].uploaded /\ Responded(r))
    => (req[r].res.status = 200 /\ req[r].res.success = "true")

\* C3 (as claimed): two concurrent uploads with different guest names use
\* two distinct temp files and target two distinct remote folders.
C3_DifferentGuestsDifferentFolders ==
  \A r1, r2 \in Reqs :
    (r1 # r2 /\ InFlight(r1) /\ InFlight(r2)
       /\ req[r1].kind = req[r2].kind /\ req[r1].kind \in UploadKinds
       /\ req[r1].guestName # req[r2].guestName)
    => /\ req[r1].tempPath # req[r2].tempPath
       /\ req[r1].kind = "cloud" => req[r1].folder # req[r2].folder
       /\ (req[r1].kind = "drive" /\ req[r1].guestFolderId # 0
             /\ req[r2].guestFolderId # 0)
          => req[r1].guestFolderId # req[r2].guestFolderId

\* C4 (as claimed): an upload request without a file gets 400 and causes no
\* remote call, whatever the configuration.
C4_NoFileAlways400 ==
  \A r \in Reqs :
    (req[r].kind \in UploadKinds /\ req[r].path = 0)
    => (req[r].res.status = 400 /\ req[r].calls = {})

\* C4 (amended): an upload request without a file is answered at once and
\* causes no remote call; the status is 400, except 500 from the Drive
\* handler when oAuth2Client is null.
C4_NoFileRejectedWithoutRemoteCall ==
  \A r \in Reqs :
    (req[r].kind \in UploadKinds /\ req[r].path = 0)
    => /\ req[r].pc = "done"
       /\ req[r].calls = {}
       /\ req[r].res.status =
            IF req[r].kind = "drive" /\ ~oAuth2Client.configured THEN 500 ELSE 400

C4_Witness ==
  \E r1, r2 \in Reqs :
    /\ req[r1].kind = "cloud" /\ req[r1].path = 0
    /\ req[r1].res.error = "Archivo faltante"
    /\ req[r2].kind = "drive" /\ req[r2].path = 0
    /\ req[r2].res.error = "Archivo faltante"

EntriesWithId(id) == {i \in 1..Len(log) : log[i].id = id}

\* C5 (as claimed): every 500 of the Cloudinary handler carries an id that
\* identifies exactly one entry of upload_errors.log, and no error text.
C5_IdIdentifiesExactlyOneEntry ==
  \A r \in Reqs :
    (req[r].kind = "cloud" /\ req[r].res.status = 500)
    => /\ Cardinality(EntriesWithId(req[r].res.id)) = 1
       /\ req[r].res.detail = <<>>

\* C5 (amended): every 500 of the Cloudinary handler carries the generic
\* message and a correlation id, never the error text; when the append to
\* upload_errors.log succeeded, the entry appended for the request carries
\* that id (and the redacted message), so the id identifies at least one
\* entry.
C5_IdMatchesTheRequestsEntry ==
  \A r \in Reqs :
    (req[r].kind = "cloud" /\ req[r].res.status = 500)
    => /\ req[r].res.success = "false"
       /\ req[r].res.error = GenericError
       /\ req[r].res.detail = <<>>
       /\ req[r].res.id # NoId
       /\ req[r].logged # 0 =>
            /\ req[r].logged \in 1..Len(log)
            /\ log[req[r].logged].id = req[r].res.id
            /\ log[req[r].logged].message = Redact(req[r].err)
            /\ EntriesWithId(req[r].res.id) # {}

C5_Witness ==
  \E r1, r2 \in Reqs :
    /\ r1 # r2
    /\ req[r1].kind = "cloud" /\ req[r1].res.status = 500 /\ req[r1].logged # 0
    /\ req[r2].kind = "cloud" /\ req[r2].res.status = 500 /\ req[r2].logged # 0
    /\ req[r1].res.id = req[r2].res.id

\* what each credential source holds
CompleteText(t) ==
  /\ t.parses
  /\ ~t.doc.isNull
  /\ LET c == ConfOf(t.doc)
     IN  c.client_id # "" /\ c.client_secret # "" /\ c.hasUris
         /\ c.redirect_uris # <<>>

YieldsFromJson(e) == e.json.set /\ CompleteText(e.json)
YieldsFromFile(e) == e.file.exists /\ CompleteText(e.file)
YieldsFromVars(e) ==
  e.clientId # "" /\ e.clientSecret # "" /\ ParseRedirects(e.redirectUris) # <<>>

NotConfiguredMessages ==
  { "credentials.json no configurado en el servidor",
    "OAuth no configurado. No hay credentials.json",
    "OAuth no configurado en el servidor" }

\* C7: while oAuth2Client is null, every request to /auth, /oauth2callback
\* and the Drive /upload gets a 500 "not configured" response, whatever its
\* parameters, no provider call is made and token.json is not written.
C7_UnconfiguredFailsClosed ==
  ~oAuth2Client.configured =>
    /\ \A r \in Reqs :
         req[r].kind \in {"auth", "callback", "drive"} =>
           /\ req[r].pc = "done"
           /\ req[r].res.status = 500
           /\ req[r].res.error \in NotConfiguredMessages
           /\ req[r].calls = {}
    /\ tokenFile = "absent"
    /\ folders = {}
    /\ uploads = {}

C7_Witness ==
  /\ ~oAuth2Client.configured
  /\ \E r1, r2 \in Reqs :
       /\ req[r1].kind = "callback" /\ Responded(r1)
       /\ req[r2].kind = "drive" /\ req[r2].path # 0 /\ Responded(r2)

\* the segment the claim expects for a name: allowed characters kept, every
\* other character replaced by "_"
ExpectedSegment(name, seg) ==
  /\ Len(seg) = Len(name)
  /\ \A i \in 1..Len(name) :
       IF name[i] \in AllowedCloud THEN seg[i] = name[i] ELSE seg[i] = "_"

\* the guest segment of a folder `${base}/${segment}`
SegmentOf(folder) == SubSeq(folder, 3, Len(folder))

\* C8 (as claimed): in the Drive handler, the Cloudinary handler and the
\* signing function (there, for the trimmed name) the segment of a non-empty
\* guest name keeps every character of [A-Za-z0-9_-] and has "_" in place of
\* every other character.
C8_SanitizeKeepsAllowedCharacters ==
  LET name == signReq.guestName
  IN  /\ ("drive" \in sanit.applied /\ name # <<>>) => ExpectedSegment(name, sanit.drive)
      /\ ("cloud" \in sanit.applied /\ name # <<>>) => ExpectedSegment(name, sanit.cloud)
      /\ (signRes.statusCode = 200 /\ signReq.hasGuest /\ Trim(name) # <<>>)
           => ExpectedSegment(Trim(name), SegmentOf(signRes.folder))

Blank(e) ==
  ~e.hasGuest \/ \A i \in 1..Len(e.guestName) : e.guestName[i] \in WhiteSpace

\* C9: with Cloudinary fully configured the signing function answers 200
\* with folder <baseFolder>/<segment>; the segment is never empty: it is
\* "anonymous" for an absent, empty or blank guestName and the sanitized
\* trimmed name otherwise; the signature is the digest of
\* folder=<that folder>&timestamp=<returned timestamp> and the secret.
C9_SignedFolderSegment ==
  (signRes # NoSignRes
     /\ signReq.cloudName # "" /\ signReq.apiKey # "" /\ signReq.apiSecret # <<>>)
  => /\ signRes.statusCode = 200
     /\ Len(signRes.folder) >= 3
     /\ SubSeq(signRes.folder, 1, 1) =
          (IF signReq.folderEnv # <<>> THEN signReq.folderEnv ELSE DefaultFolder)
     /\ signRes.folder[2] = "/"
     /\ SegmentOf(signRes.folder) # <<>>
     /\ Blank(signReq) => SegmentOf(signRes.folder) = Anonymous
     /\ ~Blank(signReq) =>
          ExpectedSegment(Trim(signReq.guestName), SegmentOf(signRes.folder))
     /\ signRes.timestamp * 1000 <= signReq.nowMs
     /\ signReq.nowMs < (signRes.timestamp + 1) * 1000
     /\ signRes.signature =
          Sha1(<<"folder=">> \o signRes.folder \o <<"&timestamp=">>
               \o <<ToString(signRes.timestamp)>> \o signReq.apiSecret)

C9_Witness ==
  /\ signRes.statusCode = 200
  /\ signReq.hasGuest
  /\ signReq.guestName = <<" ">>
  /\ SegmentOf(signRes.folder) = Anonymous

\* C10 (as claimed): under any interleaving there is at most one folder
\* named Fotos_Boda and at most one subfolder per name under a parent.
C10_FoldersUnique ==
  /\ Cardinality({f \in folders : f.name = MainFolder}) <= 1
  /\ \A f1, f2 \in folders :
       (f1.name = f2.name /\ f1.parent = f2.parent) => f1 = f2

====
